---- MODULE Spec2Model ----
(***************************************************************************)
(* Model of the DNA sequence analysis functions of main.py.                *)
(*                                                                         *)
(* A Python str is a sequence of one-character strings.  A dict whose      *)
(* iteration order is observable (the k-mer counts) is a sequence of       *)
(* <<key, value>> pairs in insertion order; a dict whose order no caller   *)
(* of the model reads (the dinucleotide table) is a function on its keys.  *)
(* True division of two ints is kept exact as the pair <<num, den>>; a     *)
(* zero denominator is the ZeroDivisionError Python raises.  A call that   *)
(* raises returns [status |-> "error", kind |-> <exception>].              *)
(***************************************************************************)
EXTENDS Integers, Sequences, FiniteSets, TLC

VARIABLES call, ret

vars == <<call, ret>>

(***************************************************************************)
(* Bounds of the explored inputs.                                          *)
(***************************************************************************)
MaxLen == 4
MaxHop == 3
MaxDataLen == 2
MaxSeqs == 2
MaxTop == 3
MaxRecords == 2
MaxVal == 2

Chars == {"A", "C", "G"}
DataChars == {"A", "C"}

SeqsUpTo(S, n) == UNION {[1..m -> S] : m \in 0..n}

\* The sequences of test_main.py's TOY_DATASET.
ToyA == <<"A","A","A","A","A","A","A","A","A","A">>
ToyB == <<"A","B","B","B","B","B","B","B","B","B">>
ToyC == <<"C","C","C","C","C","C","C","C","C","X">>
ToyD == <<"A","B","C","A","B","C","A","B","C","A">>
ToyE == <<"A","B","A","C","A","C","B","B","C","A">>
TOY_DATASET == [sequences |-> <<ToyA, ToyB, ToyC, ToyD, ToyE>>]
VALID_BASES == {"A", "B", "C"}

\* A sequence with a dinucleotide holding a character outside every alphabet
\* drawn from Chars, and a trailing single character.
OddSequence == <<"A","C","G","X","G","G","C">>

Sequences == SeqsUpTo(Chars, MaxLen) \cup {ToyA, ToyB, ToyC, ToyD, ToyE, OddSequence}

(***************************************************************************)
(* Python built-ins used by the code.                                      *)
(***************************************************************************)
Min(a, b) == IF a <= b THEN a ELSE b
Max(a, b) == IF a >= b THEN a ELSE b

\* s[start:stop] for start >= 0: a negative stop counts from the end, both
\* ends are clamped to the string, and an empty range gives "".
PySlice(s, start, stop) ==
    LET n  == Len(s)
        lo == Min(start, n)
        hi == IF stop < 0 THEN Max(stop + n, 0) ELSE Min(stop, n)
    IN  IF hi <= lo THEN <<>> ELSE SubSeq(s, lo + 1, hi)

\* s.count(c) for a one-character c.
PyCount(s, c) == Cardinality({i \in 1..Len(s) : s[i] = c})

\* len(Counter(s)): the number of distinct characters of s.
NumDistinct(s) == Cardinality({s[i] : i \in 1..Len(s)})

Ok(v) == [status |-> "ok", value |-> v]
Error(kind) == [status |-> "error", kind |-> kind]

(***************************************************************************)
(* substrings (main.py 9-27).  The generator is run to exhaustion: the     *)
(* value is the list of yielded substrings.  Offsets are 0-based as in the *)
(* code.                                                                   *)
(***************************************************************************)
\* Mutant of SubstringsFrom: the length test is dropped, so the final partial
\* window is yielded too.
RECURSIVE SubstringsFromWithPartial(_, _, _, _)
SubstringsFromWithPartial(seq, win_len, hop_len, i) ==
    IF i >= Len(seq) THEN <<>>
    ELSE <<PySlice(seq, i, i + win_len)>>
            \o SubstringsFromWithPartial(seq, win_len, hop_len, i + hop_len)

RECURSIVE SubstringsFrom(_, _, _, _)
SubstringsFrom(seq, win_len, hop_len, i) ==
    IF i >= Len(seq) THEN <<>>
    ELSE LET substring == PySlice(seq, i, i + win_len)
         IN  IF Len(substring) # win_len THEN <<>>
             ELSE <<substring>> \o SubstringsFrom(seq, win_len, hop_len, i + hop_len)

\* Mutant of substrings: a zero step is taken for an empty range.
substringsZeroStepEmpty(seq, win_len, hop_len) ==
    IF hop_len <= 0 THEN Ok(<<>>)
    ELSE Ok(SubstringsFrom(seq, win_len, hop_len, 0))

\* range(0, seq_len, hop_len) raises ValueError for a zero step and is empty
\* for a negative one.
substrings(seq, win_len, hop_len) ==
    IF hop_len = 0 THEN Error("ValueError")
    ELSE IF hop_len < 0 THEN Ok(<<>>)
    ELSE Ok(SubstringsFrom(seq, win_len, hop_len, 0))

(***************************************************************************)
(* find_palindromes (main.py 106-149).  A record is [pos, length] with the *)
(* 0-based pos of the code; start and end are the 0-based inclusive        *)
(* indices of expand_frontier.                                             *)
(***************************************************************************)
\* Mutant of Qualifies: the length test is >= instead of >.
QualifiesAtLeast(substring, min_substring_len, min_bases) ==
    /\ Len(substring) >= min_substring_len
    /\ NumDistinct(substring) >= min_bases

\* One pass of the body of expand_frontier's while loop: the record appended
\* for sequence[start : end + 1], if it passes both thresholds.
Qualifies(substring, min_substring_len, min_bases) ==
    /\ Len(substring) > min_substring_len
    /\ NumDistinct(substring) >= min_bases

\* The records one call of expand_frontier appends, in the order appended.
RECURSIVE expand_frontier(_, _, _, _, _)
expand_frontier(sequence, min_substring_len, min_bases, start, end) ==
    IF start >= 0 /\ end < Len(sequence) /\ sequence[start + 1] = sequence[end + 1]
    THEN LET substring == PySlice(sequence, start, end + 1)
             appended  ==
                 IF Qualifies(substring, min_substring_len, min_bases)
                 THEN <<[pos |-> start, length |-> Len(substring)]>>
                 ELSE <<>>
         IN  appended \o expand_frontier(sequence, min_substring_len, min_bases,
                                         start - 1, end + 1)
    ELSE <<>>

\* Mutant of PalindromesFrom: the even centres are not expanded.
RECURSIVE PalindromesFromOddOnly(_, _, _, _)
PalindromesFromOddOnly(sequence, min_substring_len, min_bases, i) ==
    IF i >= Len(sequence) THEN <<>>
    ELSE expand_frontier(sequence, min_substring_len, min_bases, i, i)
            \o PalindromesFromOddOnly(sequence, min_substring_len, min_bases, i + 1)

\* The loop "for i in range(len(sequence))" from i on: an odd centre, then
\* an even one.
RECURSIVE PalindromesFrom(_, _, _, _)
PalindromesFrom(sequence, min_substring_len, min_bases, i) ==
    IF i >= Len(sequence) THEN <<>>
    ELSE expand_frontier(sequence, min_substring_len, min_bases, i, i)
            \o expand_frontier(sequence, min_substring_len, min_bases, i, i + 1)
            \o PalindromesFrom(sequence, min_substring_len, min_bases, i + 1)

\* num_palindromes is incremented with every append.
find_palindromes(sequence, min_substring_len, min_bases) ==
    LET palindromes == PalindromesFrom(sequence, min_substring_len, min_bases, 0)
    IN  Ok([num_palindromes |-> Len(palindromes), palindromes |-> palindromes])

(***************************************************************************)
(* find_k_mers (main.py 152-171).  The dict is the sequence of             *)
(* <<k-mer, count>> pairs in insertion order.                              *)
(***************************************************************************)
DictKeys(d) == {d[i][1] : i \in 1..Len(d)}

DictGet(d, key) == LET i == CHOOSE j \in 1..Len(d) : d[j][1] = key IN d[i][2]

\* Mutant of DictAdd: the count of a key already present is overwritten.
DictAddOverwrite(d, key, value) ==
    IF key \in DictKeys(d)
    THEN [i \in 1..Len(d) |-> IF d[i][1] = key THEN <<key, value>> ELSE d[i]]
    ELSE Append(d, <<key, value>>)

\* d[key] += value, after d[key] = 0 for a key not yet in d.
DictAdd(d, key, value) ==
    IF key \in DictKeys(d)
    THEN [i \in 1..Len(d) |-> IF d[i][1] = key THEN <<key, d[i][2] + value>> ELSE d[i]]
    ELSE Append(d, <<key, value>>)

RECURSIVE CountKMers(_, _, _)
CountKMers(k_mer_stats, windows, j) ==
    IF j > Len(windows) THEN k_mer_stats
    ELSE CountKMers(DictAdd(k_mer_stats, windows[j], 1), windows, j + 1)

\* hop_len is 1, so the scanner cannot raise here.
find_k_mers(sequence, k) ==
    Ok(CountKMers(<<>>, substrings(sequence, k, 1).value, 1))

(***************************************************************************)
(* apply_foreach and find_top_k_mers (main.py 174-239).                    *)
(***************************************************************************)
\* Mutant of InsertByCount: an item goes before the items of equal count, as
\* an unstable sort may place it.
InsertByCountBeforeTies(sorted, item) ==
    LET before == Cardinality({i \in 1..Len(sorted) : sorted[i][2] > item[2]})
    IN  SubSeq(sorted, 1, before) \o <<item>> \o SubSeq(sorted, before + 1, Len(sorted))

\* items.sort(key=count, reverse=True) is stable: an item goes after every
\* item already placed whose count is at least its own.
InsertByCount(sorted, item) ==
    LET before == Cardinality({i \in 1..Len(sorted) : sorted[i][2] >= item[2]})
    IN  SubSeq(sorted, 1, before) \o <<item>> \o SubSeq(sorted, before + 1, Len(sorted))

RECURSIVE SortByCount(_, _, _)
SortByCount(sorted, items, j) ==
    IF j > Len(items) THEN sorted
    ELSE SortByCount(InsertByCount(sorted, items[j]), items, j + 1)

\* Mutant of get_top_values: the slice keeps one item too many.
get_top_valuesOneMore(d, top) == PySlice(SortByCount(<<>>, d, 1), 0, top + 1)

get_top_values(d, top) == PySlice(SortByCount(<<>>, d, 1), 0, top)

\* apply_foreach with analysis_func = find_k_mers and the keyword k.
apply_foreach_k_mers(seq_object, k) ==
    [i \in 1..Len(seq_object.sequences) |-> find_k_mers(seq_object.sequences[i], k).value]

RECURSIVE AddAll(_, _, _)
AddAll(aggregated, seq_results, j) ==
    IF j > Len(seq_results) THEN aggregated
    ELSE AddAll(DictAdd(aggregated, seq_results[j][1], seq_results[j][2]),
                seq_results, j + 1)

RECURSIVE Aggregate(_, _, _)
Aggregate(aggregated, all_k_mer_stats, i) ==
    IF i > Len(all_k_mer_stats) THEN aggregated
    ELSE Aggregate(AddAll(aggregated, all_k_mer_stats[i], 1), all_k_mer_stats, i + 1)

find_top_k_mers(seq_object, top, k, per_sequence) ==
    LET all_k_mer_stats == apply_foreach_k_mers(seq_object, k)
    IN  IF per_sequence
        THEN Ok([i \in 1..Len(all_k_mer_stats) |->
                    get_top_values(all_k_mer_stats[i], top)])
        ELSE Ok(<<get_top_values(Aggregate(<<>>, all_k_mer_stats, 1), top)>>)

(***************************************************************************)
(* get_gc_stats (main.py 30-59).  valid_nucleobases is None or the set of  *)
(* characters of the list.                                                 *)
(***************************************************************************)
\* The optional argument: None, or the list that was passed.
None == <<>>
Some(bases) == <<bases>>

\* Mutant of get_gc_stats: a zero G+C count is answered with a skew of 0.
get_gc_statsSkewGuarded(sequence, valid_nucleobases) ==
    LET num_invalid ==
            Cardinality({i \in 1..Len(sequence) : sequence[i] \notin valid_nucleobases[1]})
        total_valid ==
            IF valid_nucleobases = None THEN Len(sequence)
            ELSE Len(sequence) - num_invalid
        num_c == PyCount(sequence, "C")
        num_g == PyCount(sequence, "G")
    IN  IF total_valid = 0 THEN Error("ZeroDivisionError")
        ELSE IF num_g + num_c = 0
             THEN Ok([gc_distribution |-> <<0, total_valid>>, gc_skew |-> <<0, 1>>])
        ELSE Ok([gc_distribution |-> <<num_c + num_g, total_valid>>,
                 gc_skew |-> <<num_g - num_c, num_g + num_c>>])

get_gc_stats(sequence, valid_nucleobases) ==
    LET num_invalid ==
            Cardinality({i \in 1..Len(sequence) : sequence[i] \notin valid_nucleobases[1]})
        total_valid ==
            IF valid_nucleobases = None THEN Len(sequence)
            ELSE Len(sequence) - num_invalid
        num_c == PyCount(sequence, "C")
        num_g == PyCount(sequence, "G")
    IN  IF total_valid = 0 THEN Error("ZeroDivisionError")
        ELSE IF num_g + num_c = 0 THEN Error("ZeroDivisionError")
        ELSE Ok([gc_distribution |-> <<num_c + num_g, total_valid>>,
                 gc_skew |-> <<num_g - num_c, num_g + num_c>>])

(***************************************************************************)
(* get_dinucleotide_freqs (main.py 62-85).  valid_nucleobases stands for   *)
(* SETTINGS["valid_nucleobases"], the global the function reads.           *)
(***************************************************************************)
CountWindows(windows, d) == Cardinality({j \in 1..Len(windows) : windows[j] = d})

RECURSIVE SumValues(_, _)
SumValues(f, keys) ==
    IF keys = {} THEN 0
    ELSE LET d == CHOOSE x \in keys : TRUE IN f[d] + SumValues(f, keys \ {d})

\* Mutant of get_dinucleotide_freqs: the counts are divided by the number of
\* scanned windows instead of the number of matched ones.
get_dinucleotide_freqsByWindows(sequence, valid_nucleobases) ==
    LET valid_dinucleotides == {<<i, j>> : i \in valid_nucleobases, j \in valid_nucleobases}
        dinucleotides       == substrings(sequence, 2, 2).value
        dinucleotide_counts ==
            [d \in valid_dinucleotides |-> CountWindows(dinucleotides, d)]
        total_dinucleotides == Len(dinucleotides)
    IN  IF valid_dinucleotides # {} /\ total_dinucleotides = 0
        THEN Error("ZeroDivisionError")
        ELSE Ok([d \in valid_dinucleotides |->
                    <<dinucleotide_counts[d], total_dinucleotides>>])

get_dinucleotide_freqs(sequence, valid_nucleobases) ==
    LET valid_dinucleotides == {<<i, j>> : i \in valid_nucleobases, j \in valid_nucleobases}
        dinucleotides       == substrings(sequence, 2, 2).value
        dinucleotide_counts ==
            [d \in valid_dinucleotides |-> CountWindows(dinucleotides, d)]
        total_dinucleotides == SumValues(dinucleotide_counts, valid_dinucleotides)
    IN  IF valid_dinucleotides # {} /\ total_dinucleotides = 0
        THEN Error("ZeroDivisionError")
        ELSE Ok([d \in valid_dinucleotides |->
                    <<dinucleotide_counts[d], total_dinucleotides>>])

(***************************************************************************)
(* find_invalid_bases (main.py 88-103).  The function takes the sequence   *)
(* alone and reads the global SETTINGS, which exists only once __main__    *)
(* has loaded it; valid_bases is the keyword argument a caller may add     *)
(* (None when it does not), SETTINGS is None while the global is unset.    *)
(***************************************************************************)
RECURSIVE InvalidFrom(_, _, _)
InvalidFrom(sequence, valid_nucleobases, pos) ==
    IF pos >= Len(sequence) THEN <<>>
    ELSE (IF sequence[pos + 1] \notin valid_nucleobases
          THEN <<[pos |-> pos, base |-> sequence[pos + 1]]>>
          ELSE <<>>)
            \o InvalidFrom(sequence, valid_nucleobases, pos + 1)

find_invalid_bases(sequence, valid_bases, SETTINGS) ==
    IF valid_bases # None THEN Error("TypeError")
    ELSE IF Len(sequence) > 0 /\ SETTINGS = None THEN Error("NameError")
    ELSE LET invalid_bases ==
                 IF Len(sequence) = 0 THEN <<>>
                 ELSE InvalidFrom(sequence, SETTINGS[1].valid_nucleobases, 0)
         IN  Ok([num_invalid |-> Len(invalid_bases), invalid_bases |-> invalid_bases])

(***************************************************************************)
(* find_max, find_min and reduce_avg (main.py 242-308).  A stat record is  *)
(* a function from its field names to numbers; list indices in results are *)
(* the 0-based indices of the code.  The running extremum is <<>> while it *)
(* is still the infinity it starts as, and <<v>> afterwards.               *)
(***************************************************************************)
\* Mutant of Exceeds: the comparison is >= instead of >.
ExceedsOrEquals(value, max_value) == max_value = <<>> \/ value >= max_value[1]

\* stats_dict[field] > max_value, max_value starting as float("-inf").
Exceeds(value, max_value) == max_value = <<>> \/ value > max_value[1]

\* stats_dict[field] < min_value, min_value starting as float("inf").
Below(value, min_value) == min_value = <<>> \/ value < min_value[1]

\* The loop of find_max from list position i (1-based) on.
RECURSIVE MaxScan(_, _, _, _, _)
MaxScan(stats, field, i, max_index, max_value) ==
    IF i > Len(stats) THEN max_index
    ELSE IF Exceeds(stats[i][field], max_value)
         THEN MaxScan(stats, field, i + 1, i - 1, <<stats[i][field]>>)
         ELSE MaxScan(stats, field, i + 1, max_index, max_value)

RECURSIVE MinScan(_, _, _, _, _)
MinScan(stats, field, i, min_index, min_value) ==
    IF i > Len(stats) THEN min_index
    ELSE IF Below(stats[i][field], min_value)
         THEN MinScan(stats, field, i + 1, i - 1, <<stats[i][field]>>)
         ELSE MinScan(stats, field, i + 1, min_index, min_value)

\* stats[0] raises IndexError on an empty list; stats_dict[field] raises
\* KeyError at the first record without the field, and the loop has no exit
\* before the end of the list.
find_max(stats, field) ==
    IF Len(stats) = 0 THEN Error("IndexError")
    ELSE IF \E i \in 1..Len(stats) : field \notin DOMAIN stats[i] THEN Error("KeyError")
    ELSE LET max_index == MaxScan(stats, field, 1, 0, <<>>)
         IN  Ok(<<max_index, stats[max_index + 1]>>)

find_min(stats, field) ==
    IF Len(stats) = 0 THEN Error("IndexError")
    ELSE IF \E i \in 1..Len(stats) : field \notin DOMAIN stats[i] THEN Error("KeyError")
    ELSE LET min_index == MinScan(stats, field, 1, 0, <<>>)
         IN  Ok(<<min_index, stats[min_index + 1]>>)

\* What the loops add to aggregated[key]: the values of the records that
\* hold the key.
RECURSIVE SumField(_, _, _)
SumField(stats, key, i) ==
    IF i > Len(stats) THEN 0
    ELSE (IF key \in DOMAIN stats[i] THEN stats[i][key] ELSE 0)
            + SumField(stats, key, i + 1)

\* stats[0] raises IndexError on an empty list; aggregated[key] += value
\* raises KeyError for a key the first record lacks; a key a later record
\* lacks is not looked up in it.
reduce_avg(stats) ==
    IF Len(stats) = 0 THEN Error("IndexError")
    ELSE IF \E i \in 1..Len(stats) : ~(DOMAIN stats[i] \subseteq DOMAIN stats[1])
         THEN Error("KeyError")
    ELSE Ok([key \in DOMAIN stats[1] |-> <<SumField(stats, key, 1), Len(stats)>>])

(***************************************************************************)
(* State machine.  The functions keep no state between calls, so a run is  *)
(* one call: Init draws the function and its arguments from the bounded    *)
(* input sets and the action of that function applies it, setting ret to   *)
(* what the call returns or raises.                                        *)
(***************************************************************************)
Pending == [status |-> "pending"]

SubstringsCalls ==
    {[fn |-> "substrings", seq |-> seq, win_len |-> win_len, hop_len |-> hop_len] :
        seq \in Sequences, win_len \in (-2)..(MaxLen + 1), hop_len \in (-1)..MaxHop}

PalindromeCalls ==
    {[fn |-> "find_palindromes", sequence |-> sequence,
      min_substring_len |-> min_substring_len, min_bases |-> min_bases] :
        sequence \in Sequences, min_substring_len \in (-1)..MaxLen,
        min_bases \in 0..Cardinality(Chars)}

KMerCalls ==
    {[fn |-> "find_k_mers", sequence |-> sequence, k |-> k] :
        sequence \in Sequences, k \in (-2)..(MaxLen + 1)}

Datasets ==
    {[sequences |-> ss] : ss \in SeqsUpTo(SeqsUpTo(DataChars, MaxDataLen), MaxSeqs)}
        \cup {TOY_DATASET}

KValues == ((-1)..(MaxDataLen + 1)) \cup {5}

TopKMerCalls ==
    {[fn |-> "find_top_k_mers", seq_object |-> seq_object, top |-> top, k |-> k,
      per_sequence |-> per_sequence] :
        seq_object \in Datasets, top \in 0..MaxTop, k \in KValues,
        per_sequence \in BOOLEAN}

Alphabets == SUBSET Chars

GcCalls ==
    {[fn |-> "get_gc_stats", sequence |-> sequence,
      valid_nucleobases |-> valid_nucleobases] :
        sequence \in Sequences,
        valid_nucleobases \in {None} \cup {Some(bases) : bases \in Alphabets}}

DinucleotideCalls ==
    {[fn |-> "get_dinucleotide_freqs", sequence |-> sequence,
      SETTINGS |-> [valid_nucleobases |-> valid_nucleobases]] :
        sequence \in Sequences, valid_nucleobases \in Alphabets \cup {VALID_BASES}}

\* SETTINGS for find_invalid_bases: unset, or loaded by __main__.
InvalidBaseCalls ==
    {[fn |-> "find_invalid_bases", sequence |-> sequence, valid_bases |-> valid_bases,
      SETTINGS |-> settings] :
        sequence \in Sequences,
        valid_bases \in {None} \cup {Some(bases) : bases \in Alphabets \cup {VALID_BASES}},
        settings \in {None} \cup
            {Some([valid_nucleobases |-> bases]) : bases \in Alphabets \cup {VALID_BASES}}}

\* The fields of the records get_gc_stats returns.
Fields == {"gc_distribution", "gc_skew"}

StatRecords == UNION {[F -> 0..MaxVal] : F \in SUBSET Fields}

StatLists == SeqsUpTo(StatRecords, MaxRecords)

FindMaxCalls ==
    {[fn |-> "find_max", stats |-> stats, field |-> field] :
        stats \in StatLists, field \in Fields}

FindMinCalls ==
    {[fn |-> "find_min", stats |-> stats, field |-> field] :
        stats \in StatLists, field \in Fields}

ReduceAvgCalls == {[fn |-> "reduce_avg", stats |-> stats] : stats \in StatLists}

Init ==
    /\ \/ call \in SubstringsCalls
       \/ call \in PalindromeCalls
       \/ call \in KMerCalls
       \/ call \in TopKMerCalls
       \/ call \in GcCalls
       \/ call \in DinucleotideCalls
       \/ call \in InvalidBaseCalls
       \/ call \in FindMaxCalls
       \/ call \in FindMinCalls
       \/ call \in ReduceAvgCalls
    /\ ret = Pending

Returned(fn) == call.fn = fn /\ ret # Pending

Substrings ==
    /\ ret = Pending
    /\ call.fn = "substrings"
    /\ ret' = substrings(call.seq, call.win_len, call.hop_len)
    /\ UNCHANGED call

FindPalindromes ==
    /\ ret = Pending
    /\ call.fn = "find_palindromes"
    /\ ret' = find_palindromes(call.sequence, call.min_substring_len, call.min_bases)
    /\ UNCHANGED call

FindKMers ==
    /\ ret = Pending
    /\ call.fn = "find_k_mers"
    /\ ret' = find_k_mers(call.sequence, call.k)
    /\ UNCHANGED call

FindTopKMers ==
    /\ ret = Pending
    /\ call.fn = "find_top_k_mers"
    /\ ret' = find_top_k_mers(call.seq_object, call.top, call.k, call.per_sequence)
    /\ UNCHANGED call

GetGcStats ==
    /\ ret = Pending
    /\ call.fn = "get_gc_stats"
    /\ ret' = get_gc_stats(call.sequence, call.valid_nucleobases)
    /\ UNCHANGED call

GetDinucleotideFreqs ==
    /\ ret = Pending
    /\ call.fn = "get_dinucleotide_freqs"
    /\ ret' = get_dinucleotide_freqs(call.sequence, call.SETTINGS.valid_nucleobases)
    /\ UNCHANGED call

FindInvalidBases ==
    /\ ret = Pending
    /\ call.fn = "find_invalid_bases"
    /\ ret' = find_invalid_bases(call.sequence, call.valid_bases, call.SETTINGS)
    /\ UNCHANGED call

FindMax ==
    /\ ret = Pending
    /\ call.fn = "find_max"
    /\ ret' = find_max(call.stats, call.field)
    /\ UNCHANGED call

FindMin ==
    /\ ret = Pending
    /\ call.fn = "find_min"
    /\ ret' = find_min(call.stats, call.field)
    /\ UNCHANGED call

ReduceAvg ==
    /\ ret = Pending
    /\ call.fn = "reduce_avg"
    /\ ret' = reduce_avg(call.stats)
    /\ UNCHANGED call

Next ==
    \/ Substrings
    \/ FindPalindromes
    \/ FindKMers
    \/ FindTopKMers
    \/ GetGcStats
    \/ GetDinucleotideFreqs
    \/ FindInvalidBases
    \/ FindMax
    \/ FindMin
    \/ ReduceAvg

Spec == Init /\ [][Next]_vars

(***************************************************************************)
(* Properties.  Sequence positions in the properties are the 0-based       *)
(* positions of the code; Window(s, pos, length) is s[pos .. pos+length).  *)
(***************************************************************************)
Window(s, pos, length) == SubSeq(s, pos + 1, pos + length)

Reverse(s) == [i \in 1..Len(s) |-> s[Len(s) + 1 - i]]

IsQualifyingPalindrome(s, pos, length, min_substring_len, min_bases) ==
    /\ Window(s, pos, length) = Reverse(Window(s, pos, length))
    /\ length > min_substring_len
    /\ NumDistinct(Window(s, pos, length)) >= min_bases

\* C1: every record {pos, length} returned by find_palindromes lies inside
\* the sequence (pos >= 0, length >= 1, pos + length <= len(sequence)), its
\* substring equals its own reverse, its length is strictly greater than
\* min_substring_len, and it holds at least min_bases distinct characters.
C1_RecordsArePalindromes ==
    Returned("find_palindromes") =>
        \A r \in 1..Len(ret.value.palindromes) :
            LET p == ret.value.palindromes[r] IN
            /\ p.pos >= 0
            /\ p.length >= 1
            /\ p.pos + p.length <= Len(call.sequence)
            /\ IsQualifyingPalindrome(call.sequence, p.pos, p.length,
                                      call.min_substring_len, call.min_bases)

C1_Witness ==
    /\ Returned("find_palindromes")
    /\ call.min_substring_len >= 2
    /\ call.min_bases >= 2
    /\ \E r \in 1..Len(ret.value.palindromes) :
           ret.value.palindromes[r].length = call.min_substring_len + 1
    /\ \E r \in 1..Len(ret.value.palindromes) :
           ret.value.palindromes[r].length % 2 = 0

\* C2: find_palindromes returns exactly one record for each (pos, length)
\* whose substring is a palindrome with length > min_substring_len and at
\* least min_bases distinct characters, no record twice, and num_palindromes
\* is the length of the list; "ABACACBBCA" with thresholds 2 and 2 gives 2
\* even-length and 3 odd-length records, and a sequence with one distinct
\* base gives none when min_bases = 2.
QualifyingPalindromes(s, min_substring_len, min_bases) ==
    {p \in [pos : 0..(Len(s) - 1), length : 1..Len(s)] :
        /\ p.pos + p.length <= Len(s)
        /\ IsQualifyingPalindrome(s, p.pos, p.length, min_substring_len, min_bases)}

C2_AllPalindromesFound ==
    Returned("find_palindromes") =>
        LET found == ret.value.palindromes
            even  == {r \in 1..Len(found) : found[r].length % 2 = 0}
            odd   == {r \in 1..Len(found) : found[r].length % 2 = 1}
        IN  /\ {found[r] : r \in 1..Len(found)} =
                   QualifyingPalindromes(call.sequence, call.min_substring_len,
                                         call.min_bases)
            /\ \A q, r \in 1..Len(found) : found[q] = found[r] => q = r
            /\ ret.value.num_palindromes = Len(found)
            /\ (call.sequence = ToyE /\ call.min_substring_len = 2 /\ call.min_bases = 2)
                   => Cardinality(even) = 2 /\ Cardinality(odd) = 3
            /\ (NumDistinct(call.sequence) = 1 /\ call.min_bases = 2)
                   => Len(found) = 0

C2_Witness ==
    /\ Returned("find_palindromes")
    /\ call.sequence = ToyE
    /\ call.min_substring_len = 2
    /\ call.min_bases = 2
    /\ ret.value.num_palindromes = 5

\* C3: for window_len >= 1 and hop_len >= 1, substrings yields in order
\* exactly seq[j*hop_len .. j*hop_len + window_len) for j = 0, 1, ... as long
\* as j*hop_len + window_len <= n, every yielded substring has length
\* window_len, and nothing is yielded when window_len > n.
NumWindows(n, win_len, hop_len) ==
    IF win_len > n THEN 0 ELSE ((n - win_len) \div hop_len) + 1

C3_WindowsInOrder ==
    (Returned("substrings") /\ call.win_len >= 1 /\ call.hop_len >= 1) =>
        LET n == Len(call.seq)
            m == NumWindows(n, call.win_len, call.hop_len)
        IN  /\ ret.status = "ok"
            /\ ret.value = [j \in 1..m |->
                               Window(call.seq, (j - 1) * call.hop_len, call.win_len)]
            /\ \A j \in 1..Len(ret.value) : Len(ret.value[j]) = call.win_len
            /\ call.win_len > n => ret.value = <<>>

\* Two full windows are yielded and the candidate window after them would
\* run past the end of a sequence it still starts in.
C3_Witness ==
    /\ Returned("substrings")
    /\ call.win_len >= 2
    /\ call.hop_len >= 1
    /\ Len(ret.value) >= 2
    /\ Len(ret.value) * call.hop_len < Len(call.seq)

\* C4 as stated: a call of substrings with window_len < 1 or hop_len < 1
\* ends in an error and yields no substring.
C4_MalformedAlwaysFails ==
    (Returned("substrings") /\ (call.win_len < 1 \/ call.hop_len < 1)) =>
        ret.status = "error"

\* C4 as amended: with hop_len = 0 the call ends in an error (ValueError)
\* and yields nothing; with hop_len < 0, or with hop_len >= 1 and
\* window_len < 0, it ends without error and yields nothing; with
\* hop_len >= 1 and window_len = 0 it ends without error and yields one empty
\* string per offset 0, hop_len, 2*hop_len, ... below len(seq).
NumOffsets(n, hop_len) == (n + hop_len - 1) \div hop_len

C4_MalformedOutcome ==
    (Returned("substrings") /\ (call.win_len < 1 \/ call.hop_len < 1)) =>
        /\ call.hop_len = 0 => ret = Error("ValueError")
        /\ call.hop_len < 0 => ret = Ok(<<>>)
        /\ (call.hop_len >= 1 /\ call.win_len < 0) => ret = Ok(<<>>)
        /\ (call.hop_len >= 1 /\ call.win_len = 0) =>
               ret = Ok([j \in 1..NumOffsets(Len(call.seq), call.hop_len) |-> <<>>])

C4_Witness ==
    /\ Returned("substrings")
    /\ call.hop_len = 0
    /\ call.win_len < 1
    /\ Len(call.seq) >= 2
    /\ ret.status = "error"

\* C5 as stated: for 1 <= k <= len(sequence), find_k_mers maps each distinct
\* length-k substring to its number of overlapping occurrences and the
\* counts sum to len(sequence) - k + 1; for any other k the result is the
\* empty mapping.
Occurrences(s, kmer) ==
    Cardinality({pos \in 0..(Len(s) - Len(kmer)) : Window(s, pos, Len(kmer)) = kmer})

KMersOf(s, k) == {Window(s, pos, k) : pos \in 0..(Len(s) - k)}

RECURSIVE SumCounts(_, _)
SumCounts(d, j) == IF j > Len(d) THEN 0 ELSE d[j][2] + SumCounts(d, j + 1)

KMersCounted ==
    (call.k >= 1 /\ call.k <= Len(call.sequence)) =>
        /\ ret.status = "ok"
        /\ DictKeys(ret.value) = KMersOf(call.sequence, call.k)
        /\ \A i, j \in 1..Len(ret.value) : ret.value[i][1] = ret.value[j][1] => i = j
        /\ \A j \in 1..Len(ret.value) :
               ret.value[j][2] = Occurrences(call.sequence, ret.value[j][1])
        /\ SumCounts(ret.value, 1) = Len(call.sequence) - call.k + 1

C5_EmptyOutsideRange ==
    Returned("find_k_mers") =>
        /\ KMersCounted
        /\ (call.k < 1 \/ call.k > Len(call.sequence)) => ret = Ok(<<>>)

\* C5 as amended: the same for 1 <= k <= len(sequence); the result is the
\* empty mapping for k > len(sequence) and for k < 0; for k = 0 it maps the
\* empty string to len(sequence) when the sequence is not empty and is the
\* empty mapping when it is.
C5_KMerCounts ==
    Returned("find_k_mers") =>
        /\ KMersCounted
        /\ (call.k < 0 \/ call.k > Len(call.sequence)) => ret = Ok(<<>>)
        /\ (call.k = 0 /\ Len(call.sequence) = 0) => ret = Ok(<<>>)
        /\ (call.k = 0 /\ Len(call.sequence) > 0) =>
               ret = Ok(<< <<(<<>>), Len(call.sequence)>> >>)

\* A k-mer occurs twice, overlapping itself, beside another k-mer.
C5_Witness ==
    /\ Returned("find_k_mers")
    /\ call.k >= 2
    /\ Len(ret.value) >= 2
    /\ \E j \in 1..Len(ret.value) : ret.value[j][2] >= 2

(***************************************************************************)
(* Rankings of k-mers.  The k-mer at offset pos of s is s[pos : pos + k];  *)
(* an offset counts for a key when that slice is the key.                  *)
(***************************************************************************)
KeyOffsets(s, k, key) == {pos \in 0..(Len(s) - 1) : PySlice(s, pos, pos + k) = key}

SetMin(S) == CHOOSE x \in S : \A y \in S : x <= y

\* The slices of length k: the k-mers of the sequences.
KeysIn(seqs, k) ==
    UNION {{key \in {PySlice(seqs[i], pos, pos + k) : pos \in 0..(Len(seqs[i]) - 1)} :
                Len(key) = k}
           : i \in 1..Len(seqs)}

RECURSIVE TotalCount(_, _, _, _)
TotalCount(seqs, k, key, i) ==
    IF i > Len(seqs) THEN 0
    ELSE Cardinality(KeyOffsets(seqs[i], k, key)) + TotalCount(seqs, k, key, i + 1)

FirstSequence(seqs, k, key) ==
    SetMin({i \in 1..Len(seqs) : KeyOffsets(seqs[i], k, key) # {}})

\* a is first encountered before b, going through the sequences in order and
\* through each sequence from left to right.
EncounteredBefore(seqs, k, a, b) ==
    LET ia == FirstSequence(seqs, k, a)
        ib == FirstSequence(seqs, k, b)
    IN  \/ ia < ib
        \/ /\ ia = ib
           /\ SetMin(KeyOffsets(seqs[ia], k, a)) < SetMin(KeyOffsets(seqs[ia], k, b))

\* ranked is the first top entries of the ranking of the k-mers of seqs by
\* total count, descending, ties in order of first encounter.
IsTopRanking(ranked, seqs, k, top) ==
    LET keys == KeysIn(seqs, k) IN
    /\ Len(ranked) <= top
    /\ Len(ranked) = Min(top, Cardinality(keys))
    /\ \A i \in 1..Len(ranked) :
           /\ ranked[i][1] \in keys
           /\ ranked[i][2] = TotalCount(seqs, k, ranked[i][1], 1)
    /\ \A i, j \in 1..Len(ranked) : i < j =>
           /\ ranked[i][2] >= ranked[j][2]
           /\ ranked[i][1] # ranked[j][1]
           /\ ranked[i][2] = ranked[j][2] =>
                  EncounteredBefore(seqs, k, ranked[i][1], ranked[j][1])
    /\ \A key \in keys \ {ranked[i][1] : i \in 1..Len(ranked)} :
           \A i \in 1..Len(ranked) :
               \/ TotalCount(seqs, k, key, 1) < ranked[i][2]
               \/ /\ TotalCount(seqs, k, key, 1) = ranked[i][2]
                  /\ EncounteredBefore(seqs, k, ranked[i][1], key)

\* C6: in combined mode find_top_k_mers returns a list with exactly one
\* element, a list of at most n (key, count) pairs sorted non-increasing by
\* count, each count the sum of the key's counts over all sequences, equal
\* counts in the order their keys were first encountered; for the toy
\* dataset with k = 5 and top = 3 the keys are AAAAA, BBBBB, CCCCC in order.
C6_CombinedRanking ==
    (Returned("find_top_k_mers") /\ ~call.per_sequence) =>
        /\ ret.status = "ok"
        /\ Len(ret.value) = 1
        /\ IsTopRanking(ret.value[1], call.seq_object.sequences, call.k, call.top)
        /\ (call.seq_object = TOY_DATASET /\ call.k = 5 /\ call.top = 3) =>
               [i \in 1..3 |-> ret.value[1][i][1]] =
                   << <<"A","A","A","A","A">>, <<"B","B","B","B","B">>,
                      <<"C","C","C","C","C">> >>

\* The toy dataset's ranking: BBBBB and CCCCC, of different sequences, tie.
C6_Witness ==
    /\ Returned("find_top_k_mers")
    /\ ~call.per_sequence
    /\ call.seq_object = TOY_DATASET
    /\ call.k = 5
    /\ call.top = 3
    /\ Len(ret.value[1]) = 3
    /\ ret.value[1][2][2] = ret.value[1][3][2]

\* C7: in per-sequence mode find_top_k_mers returns one ranked list per
\* sequence, in dataset order, each computed from that sequence's own k-mer
\* counts, sorted by count descending with ties in first-insertion order, of
\* length min(n, number of distinct k-mers of the sequence); with k = 5 and
\* n = 3 that is 1 for AAAAAAAAAA and 2 for ABBBBBBBBB and CCCCCCCCCX.
C7_PerSequenceRanking ==
    (Returned("find_top_k_mers") /\ call.per_sequence) =>
        LET seqs == call.seq_object.sequences IN
        /\ ret.status = "ok"
        /\ Len(ret.value) = Len(seqs)
        /\ \A i \in 1..Len(seqs) :
               IsTopRanking(ret.value[i], <<seqs[i]>>, call.k, call.top)
        /\ (call.seq_object = TOY_DATASET /\ call.k = 5 /\ call.top = 3) =>
               /\ Len(ret.value[1]) = 1
               /\ Len(ret.value[2]) = 2
               /\ Len(ret.value[3]) = 2

\* The toy dataset: BBBBB, inserted after ABBBB, is ranked before it, and
\* the three 5-mers of ABCABCABCA tie.
C7_Witness ==
    /\ Returned("find_top_k_mers")
    /\ call.per_sequence
    /\ call.seq_object = TOY_DATASET
    /\ call.k = 5
    /\ call.top = 3
    /\ Len(ret.value) = 5
    /\ ret.value[2][1] = << <<"B","B","B","B","B">>, 5 >>
    /\ ret.value[4][1][2] = ret.value[4][3][2]

(***************************************************************************)
(* GC statistics and dinucleotide frequencies.  A quotient is the pair     *)
(* <<numerator, denominator>>.                                             *)
(***************************************************************************)
TotalValid(sequence, valid_nucleobases) ==
    IF valid_nucleobases = None THEN Len(sequence)
    ELSE Cardinality({i \in 1..Len(sequence) : sequence[i] \in valid_nucleobases[1]})

GcCount(sequence) ==
    Cardinality({i \in 1..Len(sequence) : sequence[i] \in {"C", "G"}})

\* C8: whenever total_valid > 0 and get_gc_stats returns a result, the
\* returned gc_distribution lies in [0, 1]: count('C') + count('G') <=
\* total_valid, for every sequence and every alphabet or none.
C8_GcDistributionInUnitInterval ==
    (/\ Returned("get_gc_stats")
     /\ ret.status = "ok"
     /\ TotalValid(call.sequence, call.valid_nucleobases) > 0) =>
        /\ ret.value.gc_distribution[2] = TotalValid(call.sequence, call.valid_nucleobases)
        /\ 0 <= ret.value.gc_distribution[1]
        /\ ret.value.gc_distribution[1] <= ret.value.gc_distribution[2]

\* The dinucleotides at the even offsets 0, 2, 4, ... of the sequence.
EvenWindows(sequence) ==
    [j \in 1..(Len(sequence) \div 2) |-> Window(sequence, 2 * (j - 1), 2)]

KeySpace(alphabet) == alphabet \X alphabet

Matched(sequence, alphabet) ==
    {j \in 1..Len(EvenWindows(sequence)) : EvenWindows(sequence)[j] \in KeySpace(alphabet)}

GcZeroDenominator ==
    (/\ Returned("get_gc_stats")
     /\ \/ TotalValid(call.sequence, call.valid_nucleobases) = 0
        \/ GcCount(call.sequence) = 0) =>
        ret = Error("ZeroDivisionError")

\* C9 as stated: get_gc_stats ends in an error for every sequence with
\* total_valid = 0 or count('G') + count('C') = 0, and
\* get_dinucleotide_freqs ends in an error for every sequence in which no
\* stride-2 window matches a key of the alphabet x alphabet key space.
C9_ZeroDenominatorAlwaysFails ==
    /\ GcZeroDenominator
    /\ Returned("get_dinucleotide_freqs") =>
           (Matched(call.sequence, call.SETTINGS.valid_nucleobases) = {}
                => ret.status = "error")

\* C9 as amended: the same for get_gc_stats; get_dinucleotide_freqs ends in
\* an error for every sequence in which no stride-2 window matches a key,
\* provided the alphabet is not empty; with an empty alphabet there is no key
\* to divide for and it returns the empty mapping.
C9_ZeroDenominatorFails ==
    /\ GcZeroDenominator
    /\ Returned("get_dinucleotide_freqs") =>
           LET alphabet == call.SETTINGS.valid_nucleobases IN
           /\ (alphabet # {} /\ Matched(call.sequence, alphabet) = {})
                  => ret = Error("ZeroDivisionError")
           /\ alphabet = {} => (ret.status = "ok" /\ DOMAIN ret.value = {})

\* Windows are scanned, none of them is a key of a non-empty alphabet.
C9_Witness ==
    /\ Returned("get_dinucleotide_freqs")
    /\ call.SETTINGS.valid_nucleobases # {}
    /\ Len(call.sequence) >= 4
    /\ Matched(call.sequence, call.SETTINGS.valid_nucleobases) = {}
    /\ ret.status = "error"

\* C10: when at least one window matches, get_dinucleotide_freqs returns a
\* mapping whose keys are exactly the |alphabet|^2 two-letter combinations;
\* the value of key d is the number of windows at even offsets equal to d
\* over the number of such windows that are keys; windows with a character
\* outside the alphabet and a trailing single character are ignored without
\* error; and the values sum to 1.
C10_DinucleotideFrequencies ==
    (/\ Returned("get_dinucleotide_freqs")
     /\ Matched(call.sequence, call.SETTINGS.valid_nucleobases) # {}) =>
        LET alphabet == call.SETTINGS.valid_nucleobases
            windows  == EvenWindows(call.sequence)
            total    == Cardinality(Matched(call.sequence, alphabet))
        IN  /\ ret.status = "ok"
            /\ DOMAIN ret.value = KeySpace(alphabet)
            /\ Cardinality(DOMAIN ret.value) = Cardinality(alphabet) * Cardinality(alphabet)
            /\ \A d \in KeySpace(alphabet) :
                   ret.value[d] =
                       <<Cardinality({j \in 1..Len(windows) : windows[j] = d}), total>>
            /\ total > 0
            /\ SumValues([d \in DOMAIN ret.value |-> ret.value[d][1]], DOMAIN ret.value)
                   = total

\* ACGXGGC over {A, C, G}: AC and GG count, GX is dropped, C is left over.
C10_Witness ==
    /\ Returned("get_dinucleotide_freqs")
    /\ call.sequence = OddSequence
    /\ call.SETTINGS.valid_nucleobases = Chars
    /\ ret.status = "ok"
    /\ ret.value[<<"A", "C">>] = <<1, 2>>
    /\ ret.value[<<"G", "G">>] = <<1, 2>>
    /\ ret.value[<<"C", "G">>] = <<0, 2>>

(***************************************************************************)
(* Reductions over lists of stat records.                                  *)
(***************************************************************************)
SameSchema(stats) == \A i \in 1..Len(stats) : DOMAIN stats[i] = DOMAIN stats[1]

\* C11: reduce_avg ends in an error and returns no record whenever the list
\* is empty or the records do not all have the same set of field names,
\* whether a later record has a field the first lacks or lacks a field the
\* first has.
C11_HeterogeneousAlwaysFails ==
    (Returned("reduce_avg") /\ (Len(call.stats) = 0 \/ ~SameSchema(call.stats))) =>
        ret.status = "error"

AllHaveField(stats, field) == \A i \in 1..Len(stats) : field \in DOMAIN stats[i]

\* The smallest 0-based index whose field value no other record's exceeds
\* (at_least = TRUE) or undercuts (at_least = FALSE).
FirstExtremum(stats, field, at_least) ==
    SetMin({i \in 0..(Len(stats) - 1) :
               \A j \in 1..Len(stats) :
                   IF at_least THEN stats[i + 1][field] >= stats[j][field]
                   ELSE stats[i + 1][field] <= stats[j][field]})

\* C12: for a non-empty list of records that all contain the field,
\* find_max returns (i, stats[i]) for the smallest index i whose field value
\* is the maximum, and find_min the same for the minimum; each ends in an
\* error when a record of the list lacks the field.
C12_FirstExtremum ==
    /\ (Returned("find_max") /\ Len(call.stats) > 0) =>
           IF AllHaveField(call.stats, call.field)
           THEN LET i == FirstExtremum(call.stats, call.field, TRUE)
                IN  ret = Ok(<<i, call.stats[i + 1]>>)
           ELSE ret = Error("KeyError")
    /\ (Returned("find_min") /\ Len(call.stats) > 0) =>
           IF AllHaveField(call.stats, call.field)
           THEN LET i == FirstExtremum(call.stats, call.field, FALSE)
                IN  ret = Ok(<<i, call.stats[i + 1]>>)
           ELSE ret = Error("KeyError")

\* The maximum is tied between two records that differ in another field,
\* and the first of them is returned.
C12_Witness ==
    /\ Returned("find_max")
    /\ Len(call.stats) >= 2
    /\ AllHaveField(call.stats, call.field)
    /\ \E i, j \in 1..Len(call.stats) :
           /\ i < j
           /\ call.stats[i][call.field] = call.stats[j][call.field]
           /\ call.stats[i] # call.stats[j]
           /\ ret = Ok(<<i - 1, call.stats[i]>>)

(***************************************************************************)
(* Invalid bases.                                                          *)
(***************************************************************************)
InvalidPositions(sequence, alphabet) ==
    {pos \in 0..(Len(sequence) - 1) : sequence[pos + 1] \notin alphabet}

\* listed holds exactly the positions of the characters outside the
\* alphabet, each with its character, in strictly increasing order.
ListsInvalid(listed, sequence, alphabet) ==
    /\ {listed[i].pos : i \in 1..Len(listed)} = InvalidPositions(sequence, alphabet)
    /\ \A i \in 1..Len(listed) :
           /\ listed[i].pos \in InvalidPositions(sequence, alphabet)
           /\ listed[i].base = sequence[listed[i].pos + 1]
    /\ \A i, j \in 1..Len(listed) : i < j => listed[i].pos < listed[j].pos

\* C13: called with the alphabet as an argument,
\* find_invalid_bases(sequence, valid_bases) lists exactly the positions
\* whose character is not in the alphabet, each with its character, in
\* strictly increasing order, and num_invalid is the number of entries: 0
\* for a sequence of alphabet characters only, and one entry at position 9
\* with character X for "CCCCCCCCCX" over {A, B, C}.
C13_ListsInvalidBasesOfArgument ==
    (Returned("find_invalid_bases") /\ call.valid_bases # None) =>
        /\ ret.status = "ok"
        /\ ListsInvalid(ret.value.invalid_bases, call.sequence, call.valid_bases[1])
        /\ ret.value.num_invalid = Len(ret.value.invalid_bases)
        /\ (call.sequence = ToyC /\ call.valid_bases[1] = VALID_BASES) =>
               ret.value.invalid_bases = <<[pos |-> 9, base |-> "X"]>>

====
